---- MODULE Spec2Model ----
(***************************************************************************)
(* Model of the Datahub ingestion / search core:                           *)
(*   - DocChunker.chunk_text         (applications/services/chunking)      *)
(*   - AiHubClient.embedding         (infrastructure/clients/aihub.py)     *)
(*   - DocumentController.create_document and                              *)
(*     DocumentService.save_chunks_with_embeddings                         *)
(*   - SearchService                 (applications/services/search.py)     *)
(* Each component has its own specification over the shared variables; a   *)
(* specification leaves the variables of the other components untouched.   *)
(***************************************************************************)
EXTENDS Integers, Sequences, FiniteSets, TLC

(***************************************************************************)
(* Bounds of the model                                                     *)
(***************************************************************************)
\* longest text handed to chunk_text
MaxLen == 7
\* longest text that also uses the second sentence terminator
ShortLen == 5
\* largest chunk_size tried (sizes 1..MaxSize)
MaxSize == 6
\* largest chunk_overlap tried (overlaps 0..MaxOverlap)
MaxOverlap == 3
\* largest max_retries tried (0..MaxRetries); the default is DefaultMaxRetries
MaxRetries == 3
\* longest inputs list handed to embedding
MaxInputs == 2
\* most chunks one document is split into
MaxChunks == 2
\* most documents created in one run
MaxDocs == 2
\* rows of table chunks_384dimensions when a search runs (ids 1..MaxRows)
MaxRows == 2
\* largest top_k requested (1..MaxTopK)
MaxTopK == 2
\* largest ts_rank of a matching chunk, in rank units (1..MaxRank)
MaxRank == 2
\* longest text of the runs checked for termination under fairness
LiveLen == 3

\* characters of the texts: a letter, the space, two sentence terminators
Alphabet == {"a", " ", ".", "?"}
\* characters of the longer texts
LongAlphabet == {"a", " ", "."}
\* the characters str.strip() removes
Whitespace == {" "}

VARIABLES
    \* ---- DocChunker.chunk_text ----
    text,           \* the text argument, a sequence of characters
    chunk_size,     \* self.chunk_size
    chunk_overlap,  \* self.chunk_overlap
    start,          \* local variable start
    end,            \* local variable end: the cut of the last window handled
    chunks,         \* local list chunks
    chunk_index,    \* local variable chunk_index
    c_pc,           \* position of chunk_text: "entry", "loop", "done", "looping"
    visited,        \* history: the window starts the loop has already handled
    \* ---- AiHubClient.embedding ----
    e_pc,           \* position: "idle", "enter", "post", "sleep", "returned", "raised"
    e_inputs,       \* the inputs argument: one string or a list of strings
    e_max_retries,  \* the max_retries argument
    e_attempt,      \* loop variable attempt
    e_payload,      \* len(payload["inputs"])
    e_outcomes,     \* history: the outcome of each POST, in order
    e_sleeps,       \* history: the wait_time of each asyncio.sleep, in order
    e_result,       \* the returned resp.json(), or NoResult
    \* ---- persistence (PostgreSQL) ----
    db_model,       \* datasources.embedding_model per datasource id, or NoRow
    db_documents,   \* rows of table documents
    db_chunks,      \* rows of table chunks_384dimensions
    \* ---- DocumentController.create_document, one record per call ----
    ingest,         \* locals and position of each ingest call
    \* ---- SearchService.search ----
    search,         \* arguments, locals and position of the search call
    \* ---- ChunkerFactory.get_chunker ----
    factory         \* arguments, position and return value of the get_chunker call

chunkVars == <<text, chunk_size, chunk_overlap, start, end, chunks, chunk_index, c_pc, visited>>

embedVars == <<e_pc, e_inputs, e_max_retries, e_attempt, e_payload, e_outcomes, e_sleeps, e_result>>

dbVars == <<db_model, db_documents, db_chunks>>

ingestVars == <<dbVars, ingest>>

vars == <<chunkVars, embedVars, ingestVars, search, factory>>

\* what the actions of one component leave alone
notChunk == <<embedVars, ingestVars, search, factory>>
notEmbed == <<chunkVars, ingestVars, search, factory>>
notIngest == <<chunkVars, embedVars, search, factory>>
notSearch == <<chunkVars, embedVars, ingest, factory>>
notFactory == <<chunkVars, embedVars, ingestVars, search>>

(***************************************************************************)
(* Python string primitives, with Python's 0-based offsets                 *)
(***************************************************************************)
MaxOf(S) == CHOOSE x \in S : \A y \in S : y <= x

Max2(a, b) == IF a >= b THEN a ELSE b

\* slice.indices(): how Python clamps the start of text[start:end] / rfind
PyLo(t, s) == IF s < 0 THEN Max2(s + Len(t), 0) ELSE IF s > Len(t) THEN Len(t) ELSE s

\* slice.indices(): how Python clamps the end of text[start:end] / rfind
PyHi(t, e) == IF e < 0 THEN Max2(e + Len(t), 0) ELSE IF e > Len(t) THEN Len(t) ELSE e

\* text.rfind(sub, s, e): highest offset i with s <= i, i + len(sub) <= e
\* (after clamping) where sub occurs, -1 when there is none
PyRFind(t, sub, s, e) ==
    LET lo == PyLo(t, s)
        hi == PyHi(t, e)
        hits == {i \in lo..(hi - Len(sub)) : \A k \in 1..Len(sub) : t[i + k] = sub[k]}
    IN IF hits = {} THEN -1 ELSE MaxOf(hits)

\* text[s:e]
PySlice(t, s, e) ==
    LET lo == PyLo(t, s)
        hi == PyHi(t, e)
    IN IF lo < hi THEN SubSeq(t, lo + 1, hi) ELSE <<>>

\* variant of PyStrip that removes leading whitespace only (u.lstrip())
PyStrip_LeftOnly(u) ==
    LET keep == {i \in 1..Len(u) : u[i] \notin Whitespace}
    IN IF keep = {} THEN <<>>
       ELSE SubSeq(u, CHOOSE i \in keep : \A j \in keep : i <= j, Len(u))

\* u.strip()
PyStrip(u) ==
    LET keep == {i \in 1..Len(u) : u[i] \notin Whitespace}
    IN IF keep = {} THEN <<>>
       ELSE SubSeq(u, CHOOSE i \in keep : \A j \in keep : i <= j, MaxOf(keep))


(***************************************************************************)
(* AiHubClient.embedding                                                   *)
(***************************************************************************)
\* default of the max_retries parameter
DefaultMaxRetries == 3

\* the value of e_result while nothing has been returned
NoResult == [status |-> "none"]

\* the ways one POST can fail: httpx transport error, raise_for_status on a
\* non-success status, the 30 s timeout
Failures == {"transport", "status", "timeout"}

\* payload["inputs"]: a single string is wrapped into a one-element list
PayloadLen(inputs) == IF inputs.kind = "str" THEN 1 ELSE inputs.len

\* the inputs argument: one string, or a list of len strings
StrInput == [kind |-> "str", len |-> 0]
ListInput(n) == [kind |-> "list", len |-> n]

\* variant of AttemptRange with one attempt too few: range(max_retries)
AttemptRange_OffByOne(max_retries) == 0..(max_retries - 1)

\* range(max_retries + 1)
AttemptRange(max_retries) == 0..max_retries

\* variant of IsLastAttempt that gives up one attempt early
IsLastAttempt_Early(attempt, max_retries) == attempt >= max_retries - 1

\* `if attempt == max_retries: break`
IsLastAttempt(attempt, max_retries) == attempt = max_retries

\* variant of WaitTime that grows linearly
WaitTime_Linear(attempt) == attempt + 1

\* `wait_time = 2**attempt`
WaitTime(attempt) == 2 ^ attempt

\* no embedding call is in progress
EmbedIdle ==
    /\ e_pc = "idle"
    /\ e_inputs = StrInput
    /\ e_max_retries = DefaultMaxRetries
    /\ e_attempt = 0
    /\ e_payload = 0
    /\ e_outcomes = <<>>
    /\ e_sleeps = <<>>
    /\ e_result = NoResult

\* embedding(inputs, model, max_retries) has been called
EmbedCalled ==
    /\ e_pc = "enter"
    /\ e_inputs \in {StrInput} \cup {ListInput(n) : n \in 0..MaxInputs}
    /\ e_max_retries \in 0..MaxRetries
    /\ e_attempt = 0
    /\ e_payload = 0
    /\ e_outcomes = <<>>
    /\ e_sleeps = <<>>
    /\ e_result = NoResult

\* building the payload and entering `for attempt in range(max_retries + 1)`
EmbedEnter ==
    /\ e_pc = "enter"
    /\ e_payload' = PayloadLen(e_inputs)
    /\ e_pc' = IF 0 \in AttemptRange(e_max_retries) THEN "post" ELSE "raised"
    /\ UNCHANGED <<e_inputs, e_max_retries, e_attempt, e_outcomes, e_sleeps, e_result>>
    /\ UNCHANGED notEmbed

\* the POST succeeds: `return resp.json()`, with n vectors in "data"
EmbedPostOk ==
    /\ e_pc = "post"
    /\ \E n \in 0..MaxInputs :
          e_result' = [status |-> "ok", data |-> n, attempt |-> e_attempt]
    /\ e_outcomes' = Append(e_outcomes, "ok")
    /\ e_pc' = "returned"
    /\ UNCHANGED <<e_inputs, e_max_retries, e_attempt, e_payload, e_sleeps>>
    /\ UNCHANGED notEmbed

\* the POST fails: the except branch, with the break on the last attempt
EmbedPostFail ==
    /\ e_pc = "post"
    /\ \E f \in Failures : e_outcomes' = Append(e_outcomes, f)
    /\ e_pc' = IF IsLastAttempt(e_attempt, e_max_retries) THEN "raised"
               ELSE IF e_attempt < e_max_retries THEN "sleep"
               ELSE IF e_attempt + 1 \in AttemptRange(e_max_retries) THEN "post"
               ELSE "raised"
    /\ e_attempt' = IF IsLastAttempt(e_attempt, e_max_retries) \/ e_attempt < e_max_retries
                    THEN e_attempt ELSE e_attempt + 1
    /\ UNCHANGED <<e_inputs, e_max_retries, e_payload, e_sleeps, e_result>>
    /\ UNCHANGED notEmbed

\* `await asyncio.sleep(wait_time)`, then the next value of the for loop
EmbedSleep ==
    /\ e_pc = "sleep"
    /\ e_sleeps' = Append(e_sleeps, WaitTime(e_attempt))
    /\ e_attempt' = e_attempt + 1
    /\ e_pc' = IF e_attempt + 1 \in AttemptRange(e_max_retries) THEN "post" ELSE "raised"
    /\ UNCHANGED <<e_inputs, e_max_retries, e_payload, e_outcomes, e_result>>
    /\ UNCHANGED notEmbed


(***************************************************************************)
(* Persistence and the ingest call                                         *)
(*   DocumentController.create_document                                    *)
(*   DocumentService.save_chunks_with_embeddings                           *)
(***************************************************************************)
\* datasource ids a request can name
Datasources == {"ds1", "ds2"}

\* marks a datasource id without a row in table datasources
NoRow == "<no row>"

\* values of datasources.embedding_model; the column default of
\* create_datasource is the empty string
Models == {"m1", "m2", ""}

\* the ingest calls of a run
Calls == {"c1", "c2"}

\* extensions of uploaded file names, as os.path.splitext returns them
\* (without the dot)
Extensions == {"docx", "DOC", "pdf", "word", "zip"}

\* str.lower() on the strings of the model
Lower(x) ==
    CASE x = "DOC" -> "doc"
      [] x = "DocX" -> "docx"
      [] x \in {"Word", "WORD"} -> "word"
      [] x = "PDF" -> "pdf"
      [] OTHER -> x

\* file_type_mapping.get(file_extension, file_extension)
FileType(ext) ==
    LET e == Lower(ext)
    IN CASE e \in {"xlsx", "xls"} -> "excel"
         [] e \in {"doc", "docx"} -> "word"
         [] e = "txt" -> "text"
         [] OTHER -> e

\* ChunkerFactory.get_supported_types()
SupportedTypes == {"word", "doc", "docx"}

\* variant of GetChunker that falls back to the DOC chunker for unknown types
GetChunker_Fallback(file_type) == "DocChunker"

\* ChunkerFactory.get_chunker(file_type): chunker_map.get(file_type.lower())
GetChunker(file_type) ==
    IF Lower(file_type) \in {"word", "doc", "docx"} THEN "DocChunker" ELSE "None"

\* variant of GetDatasourceEmbeddingModel that falls back to a default model
GetDatasourceEmbeddingModel_Default(ds) ==
    IF db_model[ds] \in {NoRow, ""} THEN "m1" ELSE db_model[ds]

\* DocumentRepository.get_datasource_embedding_model: None without a row
GetDatasourceEmbeddingModel(ds) == IF db_model[ds] = NoRow THEN "None" ELSE db_model[ds]

\* variant of NotModel that tests `embedding_model is None` only
NotModel_NoneOnly(m) == m = "None"

\* `if not embedding_model`
NotModel(m) == m = "None" \/ m = ""

\* the embedding the service computes for input number j of a request
Vector(model, doc, j) == [model |-> model, of |-> <<doc, j>>]

\* the "data" lists the service may answer with: entries tagged with
\* distinct indices, in any order and of any length
Responses ==
    {r \in UNION {[1..k -> 0..(MaxChunks - 1)] : k \in 0..MaxChunks} :
        \A a, b \in 1..Len(r) : a # b => r[a] # r[b]}

\* variant of SortByIndex that keeps the order of the response
SortByIndex_Unsorted(r) == r

\* embeddings_data.sort(key=lambda x: x.get("index", 0))
SortByIndex(r) ==
    [i \in 1..Len(r) |->
        CHOOSE x \in {r[k] : k \in 1..Len(r)} :
            Cardinality({k \in 1..Len(r) : r[k] < x}) = i - 1]

\* variant of CountMismatch that only refuses a response with too few vectors
CountMismatch_FewerOnly(r, n) == Len(r) < n

\* `if len(embeddings_data) != len(chunks)`
CountMismatch(r, n) == Len(r) # n

\* variant of ChunksData in which every call builds its rows for the first
\* document of the run (state shared between the calls)
ChunksData_SharedDocument(doc, ds, model, n, r) ==
    LET sorted == SortByIndex(r)
    IN [i \in 1..(IF Len(r) < n THEN Len(r) ELSE n) |->
          [document_id |-> 1, datasource_id |-> ds, chunk_index |-> i - 1,
           content |-> <<1, i - 1>>, embedding |-> Vector(model, 1, sorted[i])]]

\* chunks_data: zip(chunks, embeddings_data) after the sort; zip stops at the
\* shorter of the two lists
ChunksData(doc, ds, model, n, r) ==
    LET sorted == SortByIndex(r)
    IN [i \in 1..(IF Len(r) < n THEN Len(r) ELSE n) |->
          [document_id |-> doc, datasource_id |-> ds, chunk_index |-> i - 1,
           content |-> <<doc, i - 1>>, embedding |-> Vector(model, doc, sorted[i])]]

\* variant of OnSaveError without the inner try/except of the controller
OnSaveError_Propagate == "raised"

\* what create_document does when save_chunks_with_embeddings raises:
\* `except Exception as embed_error` logs and goes on to return the document
OnSaveError == "document"

\* variant of OnContentError without the outer try/except of the controller
OnContentError_Propagate == "raised"

\* what create_document does when reading or processing the file raises:
\* `except Exception as e` logs and goes on to return the document
OnContentError == "document"

\* what a finished call leaves: its position and what create_document gave back
Finish(rec, result) == [rec EXCEPT !.pc = "done", !.result = result]

\* the value of the response field while no response has been received
NoResponse == <<-1>>

\* variant of AfterFailedWrite that attempts the bulk write again
AfterFailedWrite_Retry(rec, outcome) == rec

\* a failed bulk write: `except Exception` of save_chunks_with_embeddings
\* logs and re-raises, and the controller does not call it again
AfterFailedWrite(rec, outcome) == Finish([rec EXCEPT !.save = outcome], OnSaveError)

\* variant of OnNoChunks without the early return: the empty list goes on to
\* the lookup of the embedding model
OnNoChunks_NoEarlyReturn(rec) == [rec EXCEPT !.pc = "model", !.content = "chunked"]

\* save_chunks_with_embeddings with an empty list: `if not chunks: return []`,
\* after which create_document returns the document
OnNoChunks(rec) == Finish([rec EXCEPT !.content = "chunked", !.save = "empty"], "document")

\* a call that has not started.  creates, lookups, posts and writes count the
\* metadata writes, model lookups, POSTs and bulk writes attempted so far;
\* response is the "data" list of the embedding response.
IdleCall ==
    [pc |-> "idle", datasource_id |-> "ds1", file_type |-> "", document |-> 0,
     chunks |-> 0, embedding_model |-> "None", attempt |-> 0, chunks_data |-> <<>>,
     creates |-> 0, lookups |-> 0, posts |-> 0, writes |-> 0, response |-> NoResponse,
     content |-> "none", save |-> "none", result |-> "none"]

\* ids of the documents created so far
DocIds == {d.id : d \in db_documents}

\* the state of call c with some fields replaced
Set(c, r) == [ingest EXCEPT ![c] = r]

\* create_document up to the metadata write: the file type is derived from the
\* extension and DocumentRepository.create commits the document row.  The
\* insert fails when the datasource has no row (foreign key) or the database
\* is unavailable; the error leaves create_document.
IngestCreate(c) ==
    /\ ingest[c].pc = "idle"
    /\ Cardinality(db_documents) < MaxDocs
    /\ \E ds \in Datasources, ext \in Extensions, dbok \in BOOLEAN :
          LET id == Cardinality(db_documents) + 1
              rec == [IdleCall EXCEPT !.datasource_id = ds, !.file_type = FileType(ext),
                                      !.creates = 1]
          IN IF dbok /\ db_model[ds] # NoRow
             THEN /\ db_documents' = db_documents \cup
                         {[id |-> id, datasource_id |-> ds, file_type |-> FileType(ext)]}
                  /\ ingest' = Set(c, [rec EXCEPT !.pc = "content", !.document = id])
             ELSE /\ db_documents' = db_documents
                  /\ ingest' = Set(c, Finish(rec, "raised"))
    /\ UNCHANGED <<db_model, db_chunks>>
    /\ UNCHANGED notIngest

\* `await file.read()` raises
IngestReadFails(c) ==
    /\ ingest[c].pc = "content"
    /\ ingest' = Set(c, Finish([ingest[c] EXCEPT !.content = "read_failed"], OnContentError))
    /\ UNCHANGED dbVars
    /\ UNCHANGED notIngest

\* get_chunker returns None: the warning branch
IngestNoChunker(c) ==
    /\ ingest[c].pc = "content"
    /\ GetChunker(ingest[c].file_type) = "None"
    /\ ingest' = Set(c, Finish([ingest[c] EXCEPT !.content = "no_chunker"], "document"))
    /\ UNCHANGED dbVars
    /\ UNCHANGED notIngest

\* chunker.process raises (extract_text on malformed bytes)
IngestProcessRaises(c) ==
    /\ ingest[c].pc = "content"
    /\ GetChunker(ingest[c].file_type) # "None"
    /\ ingest' = Set(c, Finish([ingest[c] EXCEPT !.content = "process_raised"], OnContentError))
    /\ UNCHANGED dbVars
    /\ UNCHANGED notIngest

\* chunker.process does not return: chunk_text is in an endless loop
IngestProcessHangs(c) ==
    /\ ingest[c].pc = "content"
    /\ GetChunker(ingest[c].file_type) # "None"
    /\ ingest' = Set(c, [ingest[c] EXCEPT !.pc = "hung", !.content = "hung"])
    /\ UNCHANGED dbVars
    /\ UNCHANGED notIngest

\* chunker.process returns no chunk: save_chunks_with_embeddings returns []
IngestNoChunks(c) ==
    /\ ingest[c].pc = "content"
    /\ GetChunker(ingest[c].file_type) # "None"
    /\ ingest' = Set(c, OnNoChunks(ingest[c]))
    /\ UNCHANGED dbVars
    /\ UNCHANGED notIngest

\* chunker.process returns n >= 1 chunks: save_chunks_with_embeddings goes
\* on to the lookup of the embedding model
IngestChunked(c) ==
    /\ ingest[c].pc = "content"
    /\ GetChunker(ingest[c].file_type) # "None"
    /\ \E n \in 1..MaxChunks :
          ingest' = Set(c, [ingest[c] EXCEPT !.pc = "model", !.content = "chunked",
                                             !.chunks = n])
    /\ UNCHANGED dbVars
    /\ UNCHANGED notIngest

\* `await get_datasource_embedding_model(datasource_id)`: the query fails, or
\* there is no model (ValueError), or the model is found
IngestModelLookup(c) ==
    /\ ingest[c].pc = "model"
    /\ \E dbok \in BOOLEAN :
          LET m == GetDatasourceEmbeddingModel(ingest[c].datasource_id)
              rec == [ingest[c] EXCEPT !.lookups = @ + 1]
          IN ingest' = Set(c,
                IF ~dbok THEN Finish([rec EXCEPT !.save = "lookup_failed"], OnSaveError)
                ELSE IF NotModel(m)
                     THEN Finish([rec EXCEPT !.save = "no_model"], OnSaveError)
                ELSE [rec EXCEPT !.pc = "post", !.embedding_model = m, !.attempt = 0])
    /\ UNCHANGED dbVars
    /\ UNCHANGED notIngest

\* aihub_client.embedding: a POST succeeds and returns the data list r.  A
\* count mismatch raises ValueError; otherwise the vectors are sorted by index
\* and paired with the chunks.
IngestEmbedOk(c) ==
    /\ ingest[c].pc = "post"
    /\ \E r \in Responses :
          LET rec == [ingest[c] EXCEPT !.posts = @ + 1, !.response = r]
          IN ingest' = Set(c,
                IF CountMismatch(r, rec.chunks)
                THEN Finish([rec EXCEPT !.save = "count_mismatch"], OnSaveError)
                ELSE [rec EXCEPT !.pc = "write",
                                 !.chunks_data = ChunksData(rec.document, rec.datasource_id,
                                                            rec.embedding_model, rec.chunks, r)])
    /\ UNCHANGED dbVars
    /\ UNCHANGED notIngest

\* aihub_client.embedding: a POST fails; after the last attempt the client
\* raises and save_chunks_with_embeddings logs and re-raises
IngestEmbedFail(c) ==
    /\ ingest[c].pc = "post"
    /\ LET rec == [ingest[c] EXCEPT !.posts = @ + 1]
       IN ingest' = Set(c,
             IF IsLastAttempt(rec.attempt, DefaultMaxRetries)
             THEN Finish([rec EXCEPT !.save = "embedding_failed"], OnSaveError)
             ELSE [rec EXCEPT !.pc = "sleep"])
    /\ UNCHANGED dbVars
    /\ UNCHANGED notIngest

\* aihub_client.embedding: the backoff sleep before the next attempt
IngestEmbedSleep(c) ==
    /\ ingest[c].pc = "sleep"
    /\ ingest' = Set(c, [ingest[c] EXCEPT !.pc = "post", !.attempt = @ + 1])
    /\ UNCHANGED dbVars
    /\ UNCHANGED notIngest

\* variant of Committed whose failed commit leaves the first row of the batch
Committed_Partial(rows, outcome) ==
    IF outcome = "commit_failed" THEN {r \in rows : r.chunk_index = 0} ELSE rows

\* the rows in the table after session.add_all(chunks) and session.commit():
\* all of the batch, or none when the commit fails (one transaction, rolled
\* back by get_session)
Committed(rows, outcome) == IF outcome = "commit_failed" THEN {} ELSE rows

\* ChunkRepository.create_chunks_bulk: add_all and one commit.  The commit
\* writes every row or, on failure, none (rollback in get_session); a failure
\* of the refresh after the commit leaves the rows written.
IngestBulkWrite(c) ==
    /\ ingest[c].pc = "write"
    /\ \E outcome \in {"ok", "commit_failed", "refresh_failed"} :
          LET rec == [ingest[c] EXCEPT !.writes = @ + 1]
              rows == {rec.chunks_data[i] : i \in 1..Len(rec.chunks_data)}
          IN /\ db_chunks' = db_chunks \cup Committed(rows, outcome)
             /\ ingest' = Set(c,
                   IF outcome = "ok" THEN Finish([rec EXCEPT !.save = "saved"], "document")
                   ELSE AfterFailedWrite(rec, outcome))
    /\ UNCHANGED <<db_model, db_documents>>
    /\ UNCHANGED notIngest

\* the same client makes its next upload
IngestAgain(c) ==
    /\ ingest[c].pc = "done"
    /\ Cardinality(db_documents) < MaxDocs
    /\ ingest' = Set(c, IdleCall)
    /\ UNCHANGED dbVars
    /\ UNCHANGED notIngest

\* no ingest call and an empty database
IngestIdle ==
    /\ db_model = [ds \in Datasources |-> NoRow]
    /\ db_documents = {}
    /\ db_chunks = {}
    /\ ingest = [c \in Calls |-> [IdleCall EXCEPT !.pc = "off"]]

\* the first datasource is configured, the second has another model, the
\* empty model or no row; no document yet; two clients upload at the same time
IngestConcurrent ==
    /\ db_model \in {[ds \in Datasources |-> IF ds = "ds1" THEN "m1" ELSE m] :
                      m \in {"m2", "", NoRow}}
    /\ db_documents = {}
    /\ db_chunks = {}
    /\ ingest = [c \in Calls |-> IdleCall]

\* the datasources are configured, no document yet, one client
IngestReady ==
    /\ db_model \in [Datasources -> Models \cup {NoRow}]
    /\ db_documents = {}
    /\ db_chunks = {}
    /\ ingest = [c \in Calls |-> IF c = "c1" THEN IdleCall ELSE [IdleCall EXCEPT !.pc = "off"]]

(***************************************************************************)
(* DatasourceService                                                       *)
(***************************************************************************)
\* the embedding_model argument of update_datasource: a model, or None when
\* the request leaves the field out
UpdateArgs == Models \cup {"None"}

\* update_data of update_datasource applied to the row: embedding_model is
\* replaced when the argument is not None
UpdatedModel(old, arg) == IF arg = "None" THEN old ELSE arg

\* create_datasource: DatasourceRepository.create inserts the row with the
\* embedding_model given (the empty string by default) and commits
DatasourceCreate ==
    /\ \E ds \in Datasources, m \in Models :
          /\ db_model[ds] = NoRow
          /\ db_model' = [db_model EXCEPT ![ds] = m]
    /\ UNCHANGED <<db_documents, db_chunks, ingest>>
    /\ UNCHANGED notIngest

\* update_datasource: DatasourceRepository.update sets the columns of
\* update_data on the row and commits; no other table is touched
DatasourceUpdate ==
    /\ \E ds \in Datasources, arg \in UpdateArgs :
          /\ db_model[ds] # NoRow
          /\ db_model' = [db_model EXCEPT ![ds] = UpdatedModel(@, arg)]
    /\ UNCHANGED <<db_documents, db_chunks, ingest>>
    /\ UNCHANGED notIngest

\* an empty database and one client
DatasourceReady ==
    /\ db_model = [ds \in Datasources |-> NoRow]
    /\ db_documents = {}
    /\ db_chunks = {}
    /\ ingest = [c \in Calls |-> IF c = "c1" THEN IdleCall ELSE [IdleCall EXCEPT !.pc = "off"]]

(***************************************************************************)
(* SearchService                                                           *)
(* Embeddings are one-dimensional non-zero integer vectors, so that the    *)
(* three pgvector distances are integers.  A chunk's tcontent is           *)
(* represented by its ts_rank against the query text: 0 when               *)
(* `tcontent @@ query` is false.  Scores are in units of 1/ScoreScale.     *)
(***************************************************************************)
\* c.embedding IS NULL: no vector
Null == <<>>

\* stored and query embeddings
Embeddings == {<<-1>>, <<1>>, <<2>>}

\* SearchMode, and a value outside the enum
Modes == {"semantic", "full_text", "hybrid", "other"}

\* SimilarityMetric
Metrics == {"cosine", "l2", "inner"}

\* the datasource_ids lists of the requests
DatasourceLists == {<<>>, <<"ds1">>, <<"ds2">>, <<"ds1", "ds2">>}

\* scores are counted in tenths: 0.3 and 0.7 are 3 and 7
ScoreScale == 10
\* text_weight: float = 0.3
TextWeight == 3
\* vector_weight: float = 0.7
VectorWeight == 7

Abs(x) == IF x < 0 THEN -x ELSE x

\* the place of SQL NULL in an ascending order: after every distance
NullDistance == 100

\* the pgvector operator of operator_map applied to two embeddings:
\* <=> cosine distance, <-> L2 distance, <#> negative inner product
\* On a NULL embedding the operator yields NULL, which ORDER BY ... ASC puts
\* after every value: NullDistance stands for it.
Distance(metric, a, b) ==
    IF a = Null THEN NullDistance
    ELSE CASE metric = "cosine" -> IF a[1] * b[1] > 0 THEN 0 ELSE 2
           [] metric = "l2" -> Abs(a[1] - b[1])
           [] metric = "inner" -> -(a[1] * b[1])

\* variant of VectorScore that reports the native distance as the score
VectorScore_Native(metric, a, q) == Distance(metric, a, q)

\* (1 - (c.embedding <op> query)) as score
VectorScore(metric, a, q) == 1 - Distance(metric, a, q)

\* elements of the list datasource_ids: the IN (...) filter
InList(ids) == {ids[i] : i \in 1..Len(ids)}

\* JOIN documents d ON c.document_id = d.id
HasDocument(c) == \E d \in db_documents : d.id = c.document_id

\* the sequences that hold every row of the set rows once
Orderings(rows) ==
    {o \in [1..Cardinality(rows) -> rows] : \A a, b \in 1..Cardinality(rows) : a # b => o[a] # o[b]}

\* ORDER BY key ASC: every order of the rows with non-decreasing key; key
\* maps each row to the value of the ORDER BY expression
OrderByAsc(rows, key) ==
    {o \in Orderings(rows) : \A i \in 1..(Len(o) - 1) : key[o[i]] <= key[o[i + 1]]}

\* ORDER BY key DESC
OrderByDesc(rows, key) ==
    {o \in Orderings(rows) : \A i \in 1..(Len(o) - 1) : key[o[i]] >= key[o[i + 1]]}

\* LIMIT :top_k
Limit(o, k) == SubSeq(o, 1, IF k < Len(o) THEN k ELSE Len(o))

\* a row of the result set
ResultRow(c, score) ==
    [chunk_id |-> c.id, document_id |-> c.document_id, datasource_id |-> c.datasource_id,
     chunk_index |-> c.chunk_index, score |-> score]

\* variant of SemanticOrder that ranks the farthest chunk first
SemanticOrder_Descending(rows, metric, q) ==
    OrderByDesc(rows, [c \in rows |-> Distance(metric, c.embedding, q)])

\* ORDER BY c.embedding <op> query (ascending distance)
SemanticOrder(rows, metric, q) ==
    OrderByAsc(rows, [c \in rows |-> Distance(metric, c.embedding, q)])

\* variant of SemanticRows without `AND c.embedding IS NOT NULL`
SemanticRows_NoVectorFilter(ids) ==
    {c \in db_chunks : HasDocument(c) /\ c.datasource_id \in InList(ids)}

\* the rows the semantic query selects
SemanticRows(ids) ==
    {c \in db_chunks : HasDocument(c) /\ c.datasource_id \in InList(ids) /\ c.embedding # Null}

\* the result sets the semantic query can return
SemanticQuery(ids, metric, q, k) ==
    {[i \in 1..Len(Limit(o, k)) |->
         ResultRow(o[i], ScoreScale * VectorScore(metric, o[i].embedding, q))] :
     o \in SemanticOrder(SemanticRows(ids), metric, q)}

\* variant of FullTextRows without `c.datasource_id IN (...)`
FullTextRows_AllDatasources(ids) ==
    {c \in db_chunks : HasDocument(c) /\ c.rank > 0}

\* the rows the full-text query selects
FullTextRows(ids) ==
    {c \in db_chunks : HasDocument(c) /\ c.datasource_id \in InList(ids) /\ c.rank > 0}

\* the result sets the full-text query can return
FullTextQuery(ids, k) ==
    {[i \in 1..Len(Limit(o, k)) |-> ResultRow(o[i], ScoreScale * o[i].rank)] :
     o \in OrderByDesc(FullTextRows(ids), [c \in FullTextRows(ids) |-> c.rank])}

\* WITH text_search AS (...): id and text_score of the matching chunks
TextSearch(ids) ==
    {[id |-> c.id, text_score |-> c.rank] :
     c \in {x \in db_chunks : x.datasource_id \in InList(ids) /\ x.rank > 0}}

\* vector_search AS (...): id and vector_score of the chunks with a vector
VectorSearch(ids, metric, q) ==
    {[id |-> c.id, vector_score |-> VectorScore(metric, c.embedding, q)] :
     c \in {x \in db_chunks : x.datasource_id \in InList(ids) /\ x.embedding # Null}}

\* COALESCE(ts.text_score, 0) after LEFT JOIN text_search ts ON c.id = ts.id
TextScoreOrZero(c, ts) ==
    IF \E t \in ts : t.id = c.id THEN (CHOOSE t \in ts : t.id = c.id).text_score ELSE 0

\* COALESCE(vs.vector_score, 0) after LEFT JOIN vector_search vs ON c.id = vs.id
VectorScoreOrZero(c, vs) ==
    IF \E v \in vs : v.id = c.id THEN (CHOOSE v \in vs : v.id = c.id).vector_score ELSE 0

\* variant of HybridScore that leaves the text side out
HybridScore_VectorOnly(c, ts, vs) == VectorWeight * VectorScoreOrZero(c, vs)

\* COALESCE(text_score, 0) * :text_weight + COALESCE(vector_score, 0) * :vector_weight
HybridScore(c, ts, vs) ==
    TextWeight * TextScoreOrZero(c, ts) + VectorWeight * VectorScoreOrZero(c, vs)

\* the rows the hybrid query selects:
\* ts.text_score IS NOT NULL OR vs.vector_score IS NOT NULL
HybridRows(ids, ts, vs) ==
    {c \in db_chunks :
        /\ HasDocument(c)
        /\ c.datasource_id \in InList(ids)
        /\ \/ \E t \in ts : t.id = c.id
           \/ \E v \in vs : v.id = c.id}

\* the result sets the hybrid query can return
HybridQuery(ids, metric, q, k) ==
    LET ts == TextSearch(ids)
        vs == VectorSearch(ids, metric, q)
    IN {[i \in 1..Len(Limit(o, k)) |-> ResultRow(o[i], HybridScore(o[i], ts, vs))] :
        o \in OrderByDesc(HybridRows(ids, ts, vs),
                         [c \in HybridRows(ids, ts, vs) |-> HybridScore(c, ts, vs)])}

\* no search call
NoSearch ==
    [pc |-> "idle", datasource_ids |-> <<>>, search_mode |-> "semantic",
     similarity_metric |-> "cosine", top_k |-> 1, embedding_model |-> "None",
     query_embedding |-> Null, results |-> <<>>, error |-> "none",
     lookups |-> 0, embeddings |-> 0, queries |-> 0]

\* search(datasource_ids, query, search_mode, similarity_metric, top_k) is
\* called: the dispatch on the mode
SearchCall ==
    /\ search.pc = "idle"
    /\ \E ids \in DatasourceLists, mode \in Modes, metric \in Metrics, k \in 1..MaxTopK :
          search' = [search EXCEPT !.datasource_ids = ids, !.search_mode = mode,
                                   !.similarity_metric = metric, !.top_k = k,
                                   !.pc = CASE mode \in {"semantic", "hybrid"} -> "model"
                                            [] mode = "full_text" -> "query"
                                            [] OTHER -> "unsupported"]
    /\ UNCHANGED dbVars
    /\ UNCHANGED notSearch

\* `raise ValueError(f"Unsupported search mode: ...")`
SearchUnsupported ==
    /\ search.pc = "unsupported"
    /\ search' = [search EXCEPT !.pc = "raised", !.error = "unsupported_mode"]
    /\ UNCHANGED dbVars
    /\ UNCHANGED notSearch

\* _semantic_search / _hybrid_search: the model of datasource_ids[0]
SearchModelLookup ==
    /\ search.pc = "model"
    /\ search' =
          IF search.datasource_ids = <<>>
          THEN [search EXCEPT !.pc = "raised", !.error = "index_error"]
          ELSE LET m == GetDatasourceEmbeddingModel(search.datasource_ids[1])
               IN IF NotModel(m)
                  THEN [search EXCEPT !.pc = "raised", !.error = "no_embedding_model",
                                      !.lookups = @ + 1]
                  ELSE [search EXCEPT !.pc = "embed", !.embedding_model = m,
                                      !.lookups = @ + 1]
    /\ UNCHANGED dbVars
    /\ UNCHANGED notSearch

\* aihub_client.embedding(inputs=query, ...) returns the query embedding
SearchEmbedOk ==
    /\ search.pc = "embed"
    /\ \E q \in Embeddings :
          search' = [search EXCEPT !.pc = "query", !.query_embedding = q,
                                   !.embeddings = @ + 1]
    /\ UNCHANGED dbVars
    /\ UNCHANGED notSearch

\* aihub_client.embedding raises after its last attempt
SearchEmbedFails ==
    /\ search.pc = "embed"
    /\ search' = [search EXCEPT !.pc = "raised", !.error = "embedding_failed",
                                !.embeddings = @ + 1]
    /\ UNCHANGED dbVars
    /\ UNCHANGED notSearch

\* execute_raw_sql(sql_query, ...) of the mode returns its rows.  With an
\* empty datasource list the filter reads `IN ()`, which PostgreSQL rejects.
SearchQuery ==
    /\ search.pc = "query"
    /\ search.datasource_ids # <<>>
    /\ \E res \in CASE search.search_mode = "semantic" ->
                       SemanticQuery(search.datasource_ids, search.similarity_metric,
                                     search.query_embedding, search.top_k)
                    [] search.search_mode = "full_text" ->
                       FullTextQuery(search.datasource_ids, search.top_k)
                    [] OTHER ->
                       HybridQuery(search.datasource_ids, search.similarity_metric,
                                   search.query_embedding, search.top_k) :
          search' = [search EXCEPT !.pc = "returned", !.results = res, !.queries = @ + 1]
    /\ UNCHANGED dbVars
    /\ UNCHANGED notSearch

\* execute_raw_sql raises: the database is unavailable or rejects the query
SearchQueryFails ==
    /\ search.pc = "query"
    /\ search' = [search EXCEPT !.pc = "raised", !.error = "query_failed", !.queries = @ + 1]
    /\ UNCHANGED dbVars
    /\ UNCHANGED notSearch

\* datasource of the chunk with id i: chunks are spread over the datasources
DatasourceOfRow(i) == IF i % 2 = 1 THEN "ds1" ELSE "ds2"

\* document of the chunks of one datasource
DocumentOf(ds) == IF ds = "ds1" THEN 1 ELSE 2

\* the rows chunk id i can be
RowsOf(i) ==
    {[id |-> i, document_id |-> DocumentOf(DatasourceOfRow(i)),
      datasource_id |-> DatasourceOfRow(i), chunk_index |-> (i - 1) \div 2,
      embedding |-> e, rank |-> r] :
     e \in Embeddings \cup {Null}, r \in 0..MaxRank}

\* the tables a search can meet: one row per chunk id
Corpora ==
    {{f[i] : i \in 1..MaxRows} :
     f \in {g \in [1..MaxRows -> UNION {RowsOf(i) : i \in 1..MaxRows}] :
               \A i \in 1..MaxRows : g[i] \in RowsOf(i)}}

\* no search call is in progress
SearchIdle == search = NoSearch

\* a populated database and no search yet: a datasource has a model, the
\* empty model of create_datasource's default, or no row (and then no
\* document and no chunk either)
SearchReady ==
    /\ db_model \in [Datasources -> {"m1", "", NoRow}]
    /\ db_documents = {[id |-> DocumentOf(ds), datasource_id |-> ds, file_type |-> "word"] :
                       ds \in {x \in Datasources : db_model[x] # NoRow}}
    /\ \E corpus \in Corpora :
          db_chunks = {c \in corpus : db_model[c.datasource_id] # NoRow}
    /\ ingest = [c \in Calls |-> [IdleCall EXCEPT !.pc = "off"]]
    /\ search = NoSearch

(***************************************************************************)
(* DocChunker.chunk_text: one loop iteration                               *)
(***************************************************************************)
\* max(rfind('. '), rfind('! '), rfind('? ')) over the window
SentenceEnd(t, s, e) ==
    MaxOf({PyRFind(t, <<".", " ">>, s, e),
           PyRFind(t, <<"!", " ">>, s, e),
           PyRFind(t, <<"?", " ">>, s, e)})

\* variant of CutEnd that never hard-cuts: without a break in the window the
\* chunk runs on to the end of the text
CutEnd_NoHardCut(t, s, size) ==
    LET e0 == s + size
    IN IF e0 < Len(t)
       THEN LET se == MaxOf({PyRFind(t, <<".", " ">>, s, e0),
                             PyRFind(t, <<"!", " ">>, s, e0),
                             PyRFind(t, <<"?", " ">>, s, e0)})
                sp == PyRFind(t, <<" ">>, s, e0)
            IN IF se > s THEN se + 1
               ELSE IF sp > s THEN sp
               ELSE Len(t)
       ELSE e0

\* the cut offset `end` chosen for the window starting at s
CutEnd(t, s, size) ==
    LET e0 == s + size
    IN IF e0 < Len(t)
       THEN LET se == SentenceEnd(t, s, e0)
                sp == PyRFind(t, <<" ">>, s, e0)
            IN IF se > s THEN se + 1
               ELSE IF sp > s THEN sp
               ELSE e0
       ELSE e0

\* variant of ProgressGuard that never fires
ProgressGuard_Never(s1, e, size) == FALSE

\* the progress guard: `if start <= end - self.chunk_size`
ProgressGuard(s1, e, size) == s1 <= e - size

\* variant of NextStart with the overlap applied in the wrong direction
NextStart_OverlapAdded(t, e, size, overlap) ==
    LET s1 == IF e < Len(t) THEN e + overlap + 1 ELSE e
    IN IF s1 <= e - size THEN e ELSE s1

\* start of the next window: overlap, then the progress guard
NextStart(t, e, size, overlap) ==
    LET s1 == IF e < Len(t) THEN e - overlap ELSE e
    IN IF ProgressGuard(s1, e, size) THEN e ELSE s1

\* ChunkResult(content, chunk_index, metadata)
ChunkResult(content, idx, s, e) ==
    [content |-> content, chunk_index |-> idx,
     start_char |-> s, end_char |-> e, length |-> Len(content)]

\* variant of NextChunkIndex that counts the skipped slices too
NextChunkIndex_CountSkipped(content, idx) == idx + 1

\* `chunk_index += 1`, inside `if chunk_content:`
NextChunkIndex(content, idx) == IF content # <<>> THEN idx + 1 ELSE idx

\* `if not text: return []`
ChunkEmptyReturn ==
    /\ c_pc = "entry"
    /\ text = <<>>
    /\ c_pc' = "done"
    /\ UNCHANGED <<text, chunk_size, chunk_overlap, start, end, chunks, chunk_index, visited>>
    /\ UNCHANGED notChunk

\* entering the while loop with chunks = [], chunk_index = 0, start = 0
ChunkEnterLoop ==
    /\ c_pc = "entry"
    /\ text # <<>>
    /\ c_pc' = "loop"
    /\ UNCHANGED <<text, chunk_size, chunk_overlap, start, end, chunks, chunk_index, visited>>
    /\ UNCHANGED notChunk

\* one iteration of `while start < len(text)`
ChunkIterate ==
    /\ c_pc = "loop"
    /\ start < Len(text)
    /\ start \notin visited
    /\ LET e == CutEnd(text, start, chunk_size)
           content == PyStrip(PySlice(text, start, e))
       IN /\ chunks' = IF content # <<>>
                       THEN Append(chunks, ChunkResult(content, chunk_index, start, e))
                       ELSE chunks
          /\ chunk_index' = NextChunkIndex(content, chunk_index)
          /\ end' = e
          /\ start' = NextStart(text, e, chunk_size, chunk_overlap)
    /\ visited' = visited \cup {start}
    /\ UNCHANGED <<text, chunk_size, chunk_overlap, c_pc>>
    /\ UNCHANGED notChunk

\* The loop is deterministic in start (text and parameters are fixed): when
\* it comes back to a start it has already handled it repeats the same
\* iterations for ever.  Such a run is recorded as "looping"; it never returns.
ChunkRevisit ==
    /\ c_pc = "loop"
    /\ start < Len(text)
    /\ start \in visited
    /\ c_pc' = "looping"
    /\ UNCHANGED <<text, chunk_size, chunk_overlap, start, end, chunks, chunk_index, visited>>
    /\ UNCHANGED notChunk

\* loop exit and `return chunks`
ChunkReturn ==
    /\ c_pc = "loop"
    /\ start >= Len(text)
    /\ c_pc' = "done"
    /\ UNCHANGED <<text, chunk_size, chunk_overlap, start, end, chunks, chunk_index, visited>>
    /\ UNCHANGED notChunk

\* the texts tried: every text up to ShortLen over Alphabet and every text up
\* to MaxLen over LongAlphabet
Texts ==
    (UNION {[1..n -> Alphabet] : n \in 0..ShortLen})
        \cup (UNION {[1..n -> LongAlphabet] : n \in 0..MaxLen})

\* the worked example: "The cat sat. The dog ran far away today."
ExampleText ==
    <<"T", "h", "e", " ", "c", "a", "t", " ", "s", "a", "t", ".", " ",
      "T", "h", "e", " ", "d", "o", "g", " ", "r", "a", "n", " ",
      "f", "a", "r", " ", "a", "w", "a", "y", " ",
      "t", "o", "d", "a", "y", ".">>

\* chunk_size of the worked example
ExampleSize == 20

\* chunk_overlap of the worked example
ExampleOverlap == 5

\* chunk_text has been called with one of the texts and parameter pairs, or
\* with the worked example
ChunkCalled ==
    /\ \/ /\ text \in Texts
          /\ chunk_size \in 1..MaxSize
          /\ chunk_overlap \in 0..MaxOverlap
       \/ /\ text = ExampleText
          /\ chunk_size = ExampleSize
          /\ chunk_overlap = ExampleOverlap
    /\ start = 0
    /\ end = 0
    /\ chunks = <<>>
    /\ chunk_index = 0
    /\ c_pc = "entry"
    /\ visited = {}

\* no chunk_text call is in progress
ChunkIdle ==
    /\ text = <<>>
    /\ chunk_size = 1
    /\ chunk_overlap = 0
    /\ start = 0
    /\ end = 0
    /\ chunks = <<>>
    /\ chunk_index = 0
    /\ c_pc = "idle"
    /\ visited = {}

(***************************************************************************)
(* ChunkerFactory.get_chunker                                              *)
(***************************************************************************)
\* file type tags a caller can pass, in several spellings
Tags == {"word", "Word", "WORD", "doc", "DOC", "docx", "DocX", "pdf", "PDF", "excel", "text", ""}

\* the defaults of the chunk_size and chunk_overlap parameters
DefaultChunkSize == 1000

DefaultChunkOverlap == 200

\* the return value None
NoChunker == [class |-> "None"]

\* variant of NewChunker that builds the chunker with the default parameters
NewChunker_Defaults(class, size, overlap) ==
    [class |-> class, chunk_size |-> DefaultChunkSize,
     chunk_overlap |-> DefaultChunkOverlap]

\* chunker_class(chunk_size=chunk_size, chunk_overlap=chunk_overlap):
\* BaseChunker.__init__ stores both parameters unchanged
NewChunker(class, size, overlap) ==
    [class |-> class, chunk_size |-> size, chunk_overlap |-> overlap]

\* the body of get_chunker: the instance of the class found, or None
GetChunkerInstance(file_type, size, overlap) ==
    IF GetChunker(file_type) # "None"
    THEN NewChunker(GetChunker(file_type), size, overlap)
    ELSE NoChunker

\* no get_chunker call is in progress
FactoryIdle ==
    factory = [pc |-> "idle", file_type |-> "", chunk_size |-> DefaultChunkSize,
               chunk_overlap |-> DefaultChunkOverlap, result |-> NoChunker]

\* a caller invokes get_chunker; an omitted parameter takes its default
FactoryCalled ==
    \E t \in Tags, s \in (1..MaxSize) \cup {DefaultChunkSize},
       o \in (0..MaxOverlap) \cup {DefaultChunkOverlap} :
        factory = [pc |-> "call", file_type |-> t, chunk_size |-> s,
                   chunk_overlap |-> o, result |-> NoChunker]

\* get_chunker runs from entry to its return statement
FactoryGetChunker ==
    /\ factory.pc = "call"
    /\ factory' = [factory EXCEPT
                      !.pc = "returned",
                      !.result = GetChunkerInstance(factory.file_type,
                                                    factory.chunk_size,
                                                    factory.chunk_overlap)]
    /\ UNCHANGED notFactory

(***************************************************************************)
(* Specifications, one per component                                       *)
(***************************************************************************)
InitChunk == ChunkCalled /\ EmbedIdle /\ IngestIdle /\ SearchIdle /\ FactoryIdle

NextChunk ==
    \/ ChunkEmptyReturn
    \/ ChunkEnterLoop
    \/ ChunkIterate
    \/ ChunkRevisit
    \/ ChunkReturn

SpecChunk == InitChunk /\ [][NextChunk]_vars

\* chunk_text keeps executing: every enabled step is eventually taken.  A run
\* under this specification stops only at a return or in an endless loop.
InitChunkLive == InitChunk /\ Len(text) <= LiveLen

FairSpecChunk == InitChunkLive /\ [][NextChunk]_vars /\ WF_vars(NextChunk)

InitEmbed == EmbedCalled /\ ChunkIdle /\ IngestIdle /\ SearchIdle /\ FactoryIdle

NextEmbed ==
    \/ EmbedEnter
    \/ EmbedPostOk
    \/ EmbedPostFail
    \/ EmbedSleep

SpecEmbed == InitEmbed /\ [][NextEmbed]_vars

InitIngest == IngestReady /\ ChunkIdle /\ EmbedIdle /\ SearchIdle /\ FactoryIdle

NextIngest ==
    \E c \in Calls :
        \/ IngestCreate(c)
        \/ IngestReadFails(c)
        \/ IngestNoChunker(c)
        \/ IngestProcessRaises(c)
        \/ IngestProcessHangs(c)
        \/ IngestNoChunks(c)
        \/ IngestChunked(c)
        \/ IngestModelLookup(c)
        \/ IngestEmbedOk(c)
        \/ IngestEmbedFail(c)
        \/ IngestEmbedSleep(c)
        \/ IngestBulkWrite(c)
        \/ IngestAgain(c)

SpecIngest == InitIngest /\ [][NextIngest]_vars

\* two create_document calls interleaved at their awaits
InitIngestConcurrent == IngestConcurrent /\ ChunkIdle /\ EmbedIdle /\ SearchIdle /\ FactoryIdle

SpecIngestConcurrent == InitIngestConcurrent /\ [][NextIngest]_vars

InitSearch == SearchReady /\ ChunkIdle /\ EmbedIdle /\ FactoryIdle

NextSearch ==
    \/ SearchCall
    \/ SearchUnsupported
    \/ SearchModelLookup
    \/ SearchEmbedOk
    \/ SearchEmbedFails
    \/ SearchQuery
    \/ SearchQueryFails

SpecSearch == InitSearch /\ [][NextSearch]_vars

InitFactory == FactoryCalled /\ ChunkIdle /\ EmbedIdle /\ IngestIdle /\ SearchIdle

NextFactory == FactoryGetChunker

SpecFactory == InitFactory /\ [][NextFactory]_vars

\* datasource requests interleaved with the uploads of one client
InitDatasource == DatasourceReady /\ ChunkIdle /\ EmbedIdle /\ SearchIdle /\ FactoryIdle

NextDatasource ==
    \/ DatasourceCreate
    \/ DatasourceUpdate
    \/ NextIngest

SpecDatasource == InitDatasource /\ [][NextDatasource]_vars

(***************************************************************************)
(* Properties of chunk_text                                                *)
(***************************************************************************)
\* the precondition S > O >= 0 of the chunking claims
ValidParams == chunk_overlap < chunk_size

\* offsets of text that hold a non-whitespace character
NonBlank == {p \in 0..(Len(text) - 1) : text[p + 1] \notin Whitespace}

\* offset in text of the first character of the content of chunk c
ContentStart(c) ==
    LET lo == PyLo(text, c.start_char)
        hi == PyHi(text, c.end_char)
        keep == {q \in lo..(hi - 1) : text[q + 1] \notin Whitespace}
    IN IF keep = {} THEN hi ELSE CHOOSE q \in keep : \A r \in keep : q <= r

\* the character at offset p of text lies inside the content of chunk c
InContent(c, p) ==
    LET k == p - ContentStart(c) + 1
    IN /\ c.start_char <= p
       /\ p < c.end_char
       /\ k \in 1..Len(c.content)
       /\ c.content[k] = text[p + 1]

\* every non-whitespace character of the text is in the content of a chunk
AllNonBlankCovered ==
    \A p \in NonBlank : \E i \in 1..Len(chunks) : InContent(chunks[i], p)

\* offsets from a up to (not including) b hold whitespace only
BlankBetween(a, b) == \A p \in a..(b - 1) : p \notin NonBlank

\* C1: for S > O >= 0 chunk_text terminates: the loop reaches
\* start >= len(text) after finitely many iterations and the list is returned.
\* The loop is deterministic in start and start stays between -chunk_overlap
\* and len(text) + chunk_size, so a run fails to terminate exactly when it
\* comes back to a window start it has already handled ("looping").
C1_Terminates == ValidParams => c_pc # "looping"

\* the same claim as a liveness property of the fair runs
C1_EventuallyReturns == (c_pc = "entry" /\ ValidParams) ~> (c_pc = "done")

\* C8: for S > O >= 0 the returned chunks cover the text: their ranges begin
\* at offset 0, each range begins at or before the end of the previous one,
\* and every non-whitespace character is inside the content of a chunk.
C8_CoverFromZero ==
    (c_pc = "done" /\ ValidParams) =>
        /\ (chunks # <<>> => chunks[1].start_char = 0)
        /\ \A i \in 2..Len(chunks) : chunks[i].start_char <= chunks[i - 1].end_char
        /\ AllNonBlankCovered

\* C8, the part every reading of "cover" keeps: for S > O >= 0 every
\* non-whitespace character of the text is inside the content of at least
\* one returned chunk.
C8_NonBlankCovered == (c_pc = "done" /\ ValidParams) => AllNonBlankCovered

\* C9: the returned chunks carry chunk_index 0, 1, ..., n-1 in list order,
\* also when whitespace-only slices were skipped.
C9_ContiguousIndex ==
    c_pc = "done" => \A i \in 1..Len(chunks) : chunks[i].chunk_index = i - 1

\* a returned run with at least two chunks and a skipped slice before the last
C9_Witness ==
    /\ c_pc = "done"
    /\ Len(chunks) >= 2
    /\ chunks[1].start_char > 0

\* C10: every emitted chunk has a content of at most chunk_size characters.
C10_ContentBounded ==
    \A i \in 1..Len(chunks) :
        /\ Len(chunks[i].content) <= chunk_size
        /\ chunks[i].length <= chunk_size

\* a chunk hard-cut inside an unbroken token longer than chunk_size
C10_Witness ==
    \E i \in 1..Len(chunks) :
        LET c == chunks[i]
        IN /\ Len(c.content) = chunk_size
           /\ c.end_char < Len(text)
           /\ text[c.end_char] \notin Whitespace
           /\ text[c.end_char + 1] \notin Whitespace

\* the whole text without its leading and trailing whitespace
Trimmed ==
    IF NonBlank = {} THEN <<>>
    ELSE SubSeq(text, (CHOOSE p \in NonBlank : \A q \in NonBlank : p <= q) + 1,
                MaxOf(NonBlank) + 1)

\* C11 as stated: the empty string gives zero chunks, and every (non-empty)
\* text shorter than chunk_size gives exactly one chunk whose content is the
\* whole text trimmed.
C11_ShortTextOneChunk ==
    /\ Len(text) < chunk_size => c_pc # "looping"
    /\ (c_pc = "done" /\ text = <<>>) => chunks = <<>>
    /\ (c_pc = "done" /\ text # <<>> /\ Len(text) < chunk_size) =>
           /\ Len(chunks) = 1
           /\ chunks[1].content = Trimmed

\* C11 amended: the empty string gives zero chunks; a text shorter than
\* chunk_size gives exactly one chunk holding the whole text trimmed when it
\* has a non-whitespace character, and zero chunks when it is whitespace only.
C11_ShortTextAtMostOneChunk ==
    /\ Len(text) < chunk_size => c_pc # "looping"
    /\ (c_pc = "done" /\ text = <<>>) => chunks = <<>>
    /\ (c_pc = "done" /\ Len(text) < chunk_size /\ NonBlank # {}) =>
           /\ Len(chunks) = 1
           /\ chunks[1].content = Trimmed
           /\ chunks[1].chunk_index = 0
    /\ (c_pc = "done" /\ Len(text) < chunk_size /\ NonBlank = {}) => chunks = <<>>

\* a short text with whitespace on both sides of its content, returned as
\* one trimmed chunk
C11_Witness ==
    /\ c_pc = "done"
    /\ Len(text) < chunk_size
    /\ Len(text) >= 3
    /\ text[1] \in Whitespace
    /\ text[Len(text)] \in Whitespace
    /\ Len(chunks) = 1
    /\ chunks[1].content = Trimmed

\* the sentence terminators of the cut rule
Terminators == {".", "!", "?"}

\* offsets past s of a terminator that is followed by a space, both inside
\* the window [s, e)
SentenceBreaks(s, e) ==
    {i \in 0..(Len(text) - 2) :
        /\ s < i
        /\ i + 2 <= e
        /\ text[i + 1] \in Terminators
        /\ text[i + 2] = " "}

\* offsets past s of a space inside the window [s, e)
WordBreaks(s, e) ==
    {i \in 0..(Len(text) - 1) : s < i /\ i < e /\ text[i + 1] = " "}

\* the cut the preference order asks for in the window starting at s
PreferredCut(s) ==
    LET e0 == s + chunk_size
    IN IF SentenceBreaks(s, e0) # {} THEN MaxOf(SentenceBreaks(s, e0)) + 1
       ELSE IF WordBreaks(s, e0) # {} THEN MaxOf(WordBreaks(s, e0))
       ELSE e0

\* one loop iteration is taken on a window that ends before the end of text
CutsInsideText ==
    /\ c_pc = "loop"
    /\ start < Len(text)
    /\ start + chunk_size < Len(text)
    /\ visited' # visited

\* C12: in every window [start, start + chunk_size) that does not reach the
\* end of the text the cut is right after the last terminator-plus-space past
\* start if there is one, else at the last space past start if there is one,
\* else at start + chunk_size.
C12_CutPreference == [][CutsInsideText => end' = PreferredCut(start)]_vars

\* the same for the windows that begin inside the text (start >= 0)
C12_CutPreferenceFromZero ==
    [][(CutsInsideText /\ start >= 0) => end' = PreferredCut(start)]_vars

\* C13: for 0 <= O < S, after a cut at end < len(text) the next window starts
\* at exactly end - chunk_overlap; after a cut at end >= len(text) the next
\* start is end and the loop stops.  In the worked example the first chunk is
\* "The cat sat.", cut at offset 12, and the next window starts at offset 7.
C13_NextStart ==
    (ValidParams /\ visited # {}) =>
        /\ end < Len(text) => start = end - chunk_overlap
        /\ end >= Len(text) => (start = end /\ start >= Len(text))
        /\ (text = ExampleText /\ chunk_size = ExampleSize
               /\ chunk_overlap = ExampleOverlap) =>
              /\ chunks[1].content = SubSeq(ExampleText, 1, 12)
              /\ chunks[1].start_char = 0
              /\ chunks[1].end_char = 12
              /\ visited = {0} => start = 7

\* the worked example after its first iteration
C13_Witness ==
    /\ text = ExampleText
    /\ chunk_size = ExampleSize
    /\ chunk_overlap = ExampleOverlap
    /\ visited = {0}
    /\ end = 12
    /\ start = 7

\* one loop iteration is taken
Iterates == c_pc = "loop" /\ visited' # visited

\* C26: for 0 <= O < S the window start is never negative and strictly
\* increases from each loop iteration to the next, wherever the sentence and
\* word breaks of the window lie.
C26_StartIncreases ==
    [][(ValidParams /\ Iterates) => (start' >= 0 /\ start' > start)]_vars

\* the part of C26 about the sign alone: for 0 <= O < S the window start is
\* never negative
C26_StartNeverNegative == ValidParams => start >= 0

\* the content of chunk c is not empty, has no whitespace at either end, is
\* the trimmed slice text[start_char:end_char], and length is its length
ContentWellFormed(c) ==
    /\ c.content # <<>>
    /\ c.content[1] \notin Whitespace
    /\ c.content[Len(c.content)] \notin Whitespace
    /\ c.content = PyStrip(PySlice(text, c.start_char, c.end_char))
    /\ c.length = Len(c.content)

\* C27: every emitted chunk is well formed: content non-empty, trimmed, equal
\* to the trimmed slice text[start_char:end_char], length equal to the content
\* length, and 0 <= start_char < end_char <= len(text).
C27_WellFormed ==
    \A i \in 1..Len(chunks) :
        /\ ContentWellFormed(chunks[i])
        /\ 0 <= chunks[i].start_char
        /\ chunks[i].start_char < chunks[i].end_char
        /\ chunks[i].end_char <= Len(text)

\* C27 without the upper bound on end_char
C27_WellFormedContent ==
    \A i \in 1..Len(chunks) :
        /\ ContentWellFormed(chunks[i])
        /\ 0 <= chunks[i].start_char
        /\ chunks[i].start_char < chunks[i].end_char

\* C30: with chunk_overlap >= chunk_size the progress guard sets start = end
\* after every iteration, so the window start moves forward in every
\* iteration, chunk_text terminates, and the ranges of consecutive chunks do
\* not overlap.
C30_LargeOverlapNoOverlap ==
    [][(~ValidParams)' =>
          /\ c_pc' # "looping"
          /\ Iterates => (start' = end' /\ start' > start)
          /\ \A i \in 2..Len(chunks') : chunks'[i].start_char >= chunks'[i - 1].end_char]_vars

\* a returned run with chunk_overlap > chunk_size whose three chunks follow
\* one another, the first cut at a break inside its window
C30_Witness ==
    /\ c_pc = "done"
    /\ chunk_overlap > chunk_size
    /\ Len(chunks) = 3
    /\ chunks[1].end_char < chunks[1].start_char + chunk_size
    /\ chunks[2].start_char = chunks[1].end_char
    /\ chunks[3].start_char = chunks[2].end_char

(***************************************************************************)
(* Properties of AiHubClient.embedding                                     *)
(***************************************************************************)
\* number of POSTs made so far
Attempts == Len(e_outcomes)

\* every POST made so far has failed
AllFailed == \A i \in 1..Attempts : e_outcomes[i] \in Failures

\* C4: when every attempt fails (transport error, non-success status or
\* timeout alike) embedding makes exactly max_retries + 1 attempts and then
\* raises; it never returns a result and never makes more attempts.
C4_AllFailRaises ==
    /\ Attempts <= e_max_retries + 1
    /\ AllFailed => (e_pc # "returned" /\ e_result = NoResult)
    /\ (AllFailed /\ Attempts = e_max_retries + 1) => e_pc = "raised"
    /\ (AllFailed /\ e_pc = "raised") => Attempts = e_max_retries + 1

\* the default call after four failed attempts of all three kinds
C4_Witness ==
    /\ e_pc = "raised"
    /\ e_max_retries = DefaultMaxRetries
    /\ Attempts = 4
    /\ AllFailed
    /\ {e_outcomes[i] : i \in 1..Attempts} = Failures

\* C5: when the endpoint fails the first k attempts and then succeeds, with
\* 0 <= k <= max_retries, embedding returns that response after exactly k + 1
\* attempts and makes no attempt after the first success: the client is still
\* trying after k <= max_retries failures, and a success is always the last
\* attempt made and is what the call returns.
C5_ReturnsFirstSuccess ==
    /\ (AllFailed /\ Attempts <= e_max_retries) => e_pc \in {"enter", "post", "sleep"}
    /\ \A i \in 1..Attempts :
          e_outcomes[i] = "ok" =>
              /\ i = Attempts
              /\ e_pc = "returned"
              /\ e_result.status = "ok"
              /\ e_result.attempt = i - 1
    /\ e_pc = "returned" => (Attempts >= 1 /\ e_outcomes[Attempts] = "ok")

\* a call that succeeds on its last allowed attempt, after max_retries failures
C5_Witness ==
    /\ e_pc = "returned"
    /\ e_max_retries >= 2
    /\ Attempts = e_max_retries + 1
    /\ Len(e_sleeps) = e_max_retries

\* the sum of the waits made so far
TotalWait ==
    LET sum[i \in 0..Len(e_sleeps)] == IF i = 0 THEN 0 ELSE sum[i - 1] + e_sleeps[i]
    IN sum[Len(e_sleeps)]

\* C22: after the failed attempt number a (from 0, a < max_retries) the
\* client waits 2^a units before the next attempt; it never waits before the
\* first attempt nor after the last allowed attempt, and on exhaustion the
\* waits add up to 2^max_retries - 1 units.
C22_WaitsDouble ==
    /\ \A i \in 1..Len(e_sleeps) :
          /\ e_sleeps[i] = 2 ^ (i - 1)
          /\ i <= Len(e_outcomes)
          /\ e_outcomes[i] \in Failures
    /\ Len(e_sleeps) <= e_max_retries
    /\ e_pc = "post" => Len(e_sleeps) = Len(e_outcomes)
    /\ e_pc \in {"returned", "raised"} => Len(e_sleeps) = Len(e_outcomes) - 1
    /\ e_pc = "raised" =>
          /\ Len(e_sleeps) = e_max_retries
          /\ TotalWait = 2 ^ e_max_retries - 1

\* the default call exhausted after waits of 1, 2 and 4 units
C22_Witness ==
    /\ e_pc = "raised"
    /\ e_max_retries = DefaultMaxRetries
    /\ e_sleeps = <<1, 2, 4>>
    /\ TotalWait = 7

(***************************************************************************)
(* Properties of the ingest call                                           *)
(***************************************************************************)
\* the metadata row of call c is in table documents, as written in step 1
MetadataKept(c) ==
    \E d \in db_documents :
        /\ d.id = ingest[c].document
        /\ d.datasource_id = ingest[c].datasource_id
        /\ d.file_type = ingest[c].file_type

\* the chunk rows persisted for the document of call c
ChunksOf(c) == {r \in db_chunks : r.document_id = ingest[c].document}

\* C2: when the embedding service fails on every attempt during the ingest of
\* a supported file type, create_document still returns the document record
\* without raising, the metadata row of step 1 is kept and zero chunks are
\* persisted for the document.
C2_EmbeddingFailureContained ==
    \A c \in Calls :
        (ingest[c].pc = "done" /\ ingest[c].save = "embedding_failed") =>
            /\ ingest[c].posts = DefaultMaxRetries + 1
            /\ ingest[c].result = "document"
            /\ MetadataKept(c)
            /\ ChunksOf(c) = {}
            /\ ingest[c].writes = 0

\* a second upload whose four embedding attempts failed, next to a first
\* document that has its chunks
C2_Witness ==
    /\ ingest["c1"].pc = "done"
    /\ ingest["c1"].save = "embedding_failed"
    /\ ingest["c1"].document = 2
    /\ db_chunks # {}

\* C3: when the content phase cannot produce chunks (no chunker registered
\* for the derived file type, or process raises) create_document raises no
\* error, returns the persisted metadata record, makes no call to the
\* embedding service and persists zero chunks.
C3_ContentFailureContained ==
    \A c \in Calls :
        (/\ ingest[c].pc = "done"
         /\ ingest[c].document # 0
         /\ \/ ingest[c].content \in {"no_chunker", "process_raised"}
            \/ Lower(ingest[c].file_type) \notin SupportedTypes) =>
            /\ ingest[c].result = "document"
            /\ MetadataKept(c)
            /\ ingest[c].posts = 0
            /\ ingest[c].writes = 0
            /\ ChunksOf(c) = {}

\* an upload of a Word file whose processing raised, after an upload of an
\* unregistered type
C3_Witness ==
    /\ ingest["c1"].pc = "done"
    /\ ingest["c1"].content = "process_raised"
    /\ ingest["c1"].document = 2
    /\ \E d \in db_documents : d.id = 1 /\ d.file_type = "pdf"

\* the chunk rows persisted for the document of call c: nothing while the
\* call has no document
ChunksWritten(c) == IF ingest[c].document = 0 THEN {} ELSE ChunksOf(c)

\* an embedding response has been received by call c
HasResponse(c) == ingest[c].response # NoResponse

\* C17: if the embedding response holds a number of vectors different from
\* the number of chunks sent, the chunk-save phase fails with the
\* count-mismatch error, no chunk of the document is written (also when
\* some chunks did get a vector), and no further POST is made: the
\* mismatching response is the last one.
C17_CountMismatchWritesNothing ==
    \A c \in Calls :
        (HasResponse(c) /\ Len(ingest[c].response) # ingest[c].chunks) =>
            /\ ingest[c].pc = "done"
            /\ ingest[c].save = "count_mismatch"
            /\ ingest[c].writes = 0
            /\ ChunksWritten(c) = {}
            /\ ingest[c].posts = ingest[c].attempt + 1

\* a second upload of two chunks answered, after one failed attempt, with a
\* single vector, next to a first document that has its chunks
C17_Witness ==
    /\ ingest["c1"].pc = "done"
    /\ ingest["c1"].save = "count_mismatch"
    /\ ingest["c1"].chunks = 2
    /\ Len(ingest["c1"].response) = 1
    /\ ingest["c1"].attempt = 1
    /\ ingest["c1"].document = 2
    /\ db_chunks # {}

\* the response r tags its entries with the indices 0..n-1, in any order
IsPermutation(r, n) == Len(r) = n /\ {r[k] : k \in 1..Len(r)} = 0..(n - 1)

\* the row the chunk at position i of call c is expected to give: its own
\* content with the vector reported for index i
ExpectedRow(c, i) ==
    [document_id |-> ingest[c].document, datasource_id |-> ingest[c].datasource_id,
     chunk_index |-> i, content |-> <<ingest[c].document, i>>,
     embedding |-> Vector(ingest[c].embedding_model, ingest[c].document, i)]

\* C18: for n chunks and a response whose entries carry the indices 0..n-1
\* in any order, the chunk at position i is paired, and persisted, with the
\* vector whose reported index is i, for every i.
C18_PairedByIndex ==
    \A c \in Calls :
        (HasResponse(c) /\ IsPermutation(ingest[c].response, ingest[c].chunks)) =>
            /\ Len(ingest[c].chunks_data) = ingest[c].chunks
            /\ \A i \in 0..(ingest[c].chunks - 1) :
                   ingest[c].chunks_data[i + 1] = ExpectedRow(c, i)
            /\ ingest[c].save \in {"saved", "refresh_failed"} =>
                   ChunksOf(c) = {ExpectedRow(c, i) : i \in 0..(ingest[c].chunks - 1)}

\* two chunks saved from a response that came back in reverse order
C18_Witness ==
    /\ ingest["c1"].pc = "done"
    /\ ingest["c1"].save = "saved"
    /\ ingest["c1"].chunks = 2
    /\ ingest["c1"].response = <<1, 0>>
    /\ Cardinality(ChunksOf("c1")) = 2

\* the datasource of call c has no configured embedding model
NoModelConfigured(c) == db_model[ingest[c].datasource_id] \in {NoRow, ""}

\* C19 as stated: whenever the datasource of an ingest has no configured
\* model, the chunk-save phase (once entered, and the lookup query itself
\* answering) fails with the configuration error before any embedding call
\* and any chunk write, and the metadata of step 1 is retained.
C19_NoModelAlwaysFails ==
    \A c \in Calls :
        (/\ ingest[c].pc = "done"
         /\ ingest[c].content = "chunked"
         /\ NoModelConfigured(c)
         /\ ingest[c].save # "lookup_failed") =>
            /\ ingest[c].save = "no_model"
            /\ ingest[c].posts = 0
            /\ ingest[c].writes = 0
            /\ MetadataKept(c)

\* C19 amended: when the chunk-save phase is entered with at least one chunk
\* and the datasource has no configured model, the phase fails with the
\* configuration error before any embedding call and any chunk write,
\* create_document returns the document and its metadata is retained; with
\* no chunk the phase returns without a lookup and without an error; for a
\* datasource without a row the metadata write of step 1 fails and the
\* phase is not entered.
C19_NoModelFailsBeforeEmbedding ==
    \A c \in Calls :
        /\ (NoModelConfigured(c) /\ ingest[c].chunks >= 1 /\ ingest[c].lookups >= 1
               /\ ingest[c].save # "lookup_failed") =>
              /\ ingest[c].pc = "done"
              /\ ingest[c].save = "no_model"
              /\ ingest[c].result = "document"
              /\ ingest[c].posts = 0
              /\ ingest[c].writes = 0
              /\ ChunksWritten(c) = {}
              /\ MetadataKept(c)
        /\ NoModelConfigured(c) => ingest[c].pc \notin {"post", "sleep", "write"}
        /\ ingest[c].save = "empty" =>
              /\ ingest[c].lookups = 0
              /\ ingest[c].posts = 0
              /\ ingest[c].result = "document"
        /\ (db_model[ingest[c].datasource_id] = NoRow /\ ingest[c].creates = 1) =>
              /\ ingest[c].pc = "done"
              /\ ingest[c].result = "raised"
              /\ ingest[c].document = 0
              /\ ingest[c].content = "none"
              /\ ingest[c].lookups = 0

\* a second upload into a datasource whose model is the empty string, refused
\* at the lookup, next to a first document that has its chunks
C19_Witness ==
    /\ ingest["c1"].pc = "done"
    /\ ingest["c1"].save = "no_model"
    /\ ingest["c1"].chunks = 2
    /\ db_model[ingest["c1"].datasource_id] = ""
    /\ ingest["c1"].document = 2
    /\ MetadataKept("c1")
    /\ db_chunks # {}

\* C20: within one ingest call the metadata write happens exactly once and
\* before extraction, model lookup, embedding and chunk write; the bulk
\* write is attempted at most once and only after a response with a
\* matching vector count; only the POST of the embedding call is repeated;
\* a failed metadata write or chunk write ends the call.
C20_OrderedNoWriteRetry ==
    \A c \in Calls :
        LET rec == ingest[c]
        IN /\ rec.creates <= 1
           /\ rec.pc \notin {"idle", "off"} => rec.creates = 1
           /\ (rec.content # "none" \/ rec.lookups > 0 \/ rec.posts > 0 \/ rec.writes > 0) =>
                  (rec.creates = 1 /\ rec.document # 0)
           /\ rec.lookups <= 1
           /\ rec.lookups > 0 => (rec.content = "chunked" /\ rec.chunks >= 1)
           /\ rec.posts > 0 => (rec.lookups = 1 /\ ~NotModel(rec.embedding_model))
           /\ rec.posts <= DefaultMaxRetries + 1
           /\ rec.writes <= 1
           /\ rec.writes > 0 =>
                  /\ rec.response # NoResponse
                  /\ Len(rec.response) = rec.chunks
                  /\ rec.posts >= 1
           /\ (rec.creates = 1 /\ rec.document = 0) =>
                  (rec.pc = "done" /\ rec.result = "raised" /\ rec.content = "none")
           /\ rec.save \in {"commit_failed", "refresh_failed"} =>
                  (rec.pc = "done" /\ rec.writes = 1)

\* a call whose embedding needed three POSTs and whose one bulk write failed
C20_Witness ==
    /\ ingest["c1"].pc = "done"
    /\ ingest["c1"].save = "commit_failed"
    /\ ingest["c1"].creates = 1
    /\ ingest["c1"].posts = 3
    /\ ingest["c1"].writes = 1
    /\ ChunksOf("c1") = {}

OwnRows(c) ==
    {[document_id |-> ingest[c].document, datasource_id |-> ingest[c].datasource_id,
      chunk_index |-> i, content |-> <<ingest[c].document, i>>,
      embedding |-> Vector(ingest[c].embedding_model, ingest[c].document,
                           SortByIndex(ingest[c].response)[i + 1])] :
        i \in 0..(ingest[c].chunks - 1)}

\* the bulk write of call c went through
Persisted(c) == ingest[c].save \in {"saved", "refresh_failed"}

\* each call has its own document, a call that succeeded has persisted
\* exactly its own rows and any other call none, and every row in the table
\* belongs to one document, its datasource and the request made for it
OwnChunksOnly ==
    /\ \A c \in Calls :
          /\ ingest[c].document # 0 =>
                /\ MetadataKept(c)
                /\ \A o \in Calls \ {c} : ingest[o].document # ingest[c].document
          /\ Persisted(c) => ChunksOf(c) = OwnRows(c)
          /\ ~Persisted(c) => ChunksWritten(c) = {}
    /\ \A r \in db_chunks :
          /\ r.content[1] = r.document_id
          /\ r.embedding.of[1] = r.document_id
          /\ r.embedding.model = db_model[r.datasource_id]
          /\ \E d \in db_documents :
                d.id = r.document_id /\ d.datasource_id = r.datasource_id

\* a step that is not a step of call c leaves the rows of c's document as
\* they are, and no step removes a row
OthersUntouched ==
    /\ db_chunks \subseteq db_chunks'
    /\ \A c \in Calls :
          (ingest[c].document # 0 /\ ingest'[c] = ingest[c]) =>
              {r \in db_chunks' : r.document_id = ingest[c].document} = ChunksOf(c)

\* C28: under every interleaving of two ingest calls, on the same or on
\* different datasources, each call creates its own document and, when it
\* succeeds, persists exactly its own chunks, each with the document id and
\* datasource id of its call and the vector its own embedding call returned
\* for it; what one call does, failing or not, does not change what the
\* other persists.
C28_CallsIsolated == [][OwnChunksOnly' /\ OthersUntouched]_vars

\* both calls saved two chunks each, on different datasources
C28_Witness ==
    /\ \A c \in Calls : ingest[c].pc = "done" /\ ingest[c].save = "saved" /\ ingest[c].chunks = 2
    /\ ingest["c1"].datasource_id # ingest["c2"].datasource_id
    /\ ingest["c1"].document = 2
    /\ Cardinality(db_chunks) = 4

\* on one datasource, the second call saved while the first one failed
C28_FailureWitness ==
    /\ ingest["c1"].datasource_id = ingest["c2"].datasource_id
    /\ ingest["c1"].pc = "done"
    /\ ingest["c1"].save = "embedding_failed"
    /\ ingest["c1"].document = 1
    /\ ingest["c2"].pc = "done"
    /\ ingest["c2"].save = "saved"
    /\ Cardinality(ChunksOf("c2")) = 2

\* call c handed an empty chunk list to save_chunks_with_embeddings
EmptyList(c) == ingest[c].content = "chunked" /\ ingest[c].chunks = 0

\* the call with the empty list is over: nothing was looked up, posted or
\* written, no error was raised and the document came back
EmptySaveDidNothing ==
    \A c \in Calls :
        EmptyList(c) =>
            /\ ingest[c].pc = "done"
            /\ ingest[c].save = "empty"
            /\ ingest[c].result = "document"
            /\ ingest[c].lookups = 0
            /\ ingest[c].posts = 0
            /\ ingest[c].writes = 0
            /\ ingest[c].response = NoResponse
            /\ ChunksWritten(c) = {}
            /\ MetadataKept(c)

\* C29: save_chunks_with_embeddings called with an empty chunk list returns
\* the empty list and changes nothing: no embedding-model lookup, no call to
\* the embedding service, no chunk write, no error; the tables are as they
\* were before the call.
C29_EmptyListNoEffect ==
    [][/\ EmptySaveDidNothing'
       /\ (\E c \in Calls : ~EmptyList(c) /\ EmptyList(c)') => UNCHANGED dbVars]_vars

\* a second upload without chunks into a datasource without a model, next
\* to a first document that has its chunks
C29_Witness ==
    /\ ingest["c1"].pc = "done"
    /\ ingest["c1"].save = "empty"
    /\ ingest["c1"].document = 2
    /\ db_model[ingest["c1"].datasource_id] = ""
    /\ db_chunks # {}

(***************************************************************************)
(* Properties of SearchService                                             *)
(***************************************************************************)
\* the chunks of the requested datasources
Targeted == {c \in db_chunks : c.datasource_id \in InList(search.datasource_ids)}

\* the candidates of the requested mode: chunks with a stored vector
\* (semantic), chunks matching the query text (full_text), either (hybrid)
Candidates ==
    CASE search.search_mode = "semantic" -> {c \in Targeted : c.embedding # Null}
      [] search.search_mode = "full_text" -> {c \in Targeted : c.rank > 0}
      [] OTHER -> {c \in Targeted : c.rank > 0 \/ c.embedding # Null}

\* 1 - distance to the query embedding, 0 for a chunk without a vector
VectorSide(c) ==
    IF c.embedding = Null THEN 0
    ELSE 1 - Distance(search.similarity_metric, c.embedding, search.query_embedding)

\* the score a candidate is expected to get, in units of 1/ScoreScale
ExpectedScore(c) ==
    CASE search.search_mode = "semantic" -> ScoreScale * VectorSide(c)
      [] search.search_mode = "full_text" -> ScoreScale * c.rank
      [] OTHER -> TextWeight * c.rank + VectorWeight * VectorSide(c)

\* ids of the chunks in the returned list
ReturnedIds == {search.results[i].chunk_id : i \in 1..Len(search.results)}

\* C6: in every search mode the returned list has at most top_k entries, its
\* scores are non-increasing, and it is a true top-k: the list is as long
\* as top_k and the candidates allow, and no candidate left out has a
\* score strictly greater than a returned one.
C6_TopKDescending ==
    search.pc = "returned" =>
        LET res == search.results
        IN /\ Len(res) <= search.top_k
           /\ \A i \in 1..(Len(res) - 1) : res[i].score >= res[i + 1].score
           /\ Len(res) = Cardinality(Candidates) \/ Len(res) = search.top_k
           /\ \A c \in Candidates :
                 c.id \notin ReturnedIds =>
                     \A i \in 1..Len(res) : ExpectedScore(c) <= res[i].score

\* a semantic search with top_k = 1 that returns the nearer of two chunks
C6_Witness ==
    /\ search.pc = "returned"
    /\ search.search_mode = "semantic"
    /\ Len(search.results) = 1
    /\ \E c \in Candidates :
          c.id \notin ReturnedIds /\ ExpectedScore(c) < search.results[1].score

\* C7: in HYBRID search the candidates are the union of the full-text
\* matches and the chunks with a stored vector within the target
\* datasources, and the score of each is
\* text_weight * text_score + vector_weight * vector_score with a missing
\* side counted as 0 (weights 0.3 and 0.7).
C7_HybridUnionAndScore ==
    (search.pc = "returned" /\ search.search_mode = "hybrid") =>
        LET res == search.results
            union == {c \in Targeted : c.rank > 0} \cup {c \in Targeted : c.embedding # Null}
        IN /\ \A i \in 1..Len(res) :
                 \E c \in union :
                    /\ c.id = res[i].chunk_id
                    /\ res[i].score = TextWeight * c.rank + VectorWeight * VectorSide(c)
           /\ Cardinality(ReturnedIds) = Len(res)
           /\ Cardinality(union) <= search.top_k => ReturnedIds = {c.id : c \in union}

\* a hybrid result holding a chunk that only matches the text and a chunk
\* present on both sides
C7_Witness ==
    /\ search.pc = "returned"
    /\ search.search_mode = "hybrid"
    /\ \E c \in db_chunks :
          c.id \in ReturnedIds /\ c.rank > 0 /\ c.embedding = Null
    /\ \E c \in db_chunks :
          c.id \in ReturnedIds /\ c.rank > 0 /\ c.embedding # Null

\* the stored chunk with id i
ChunkRow(i) == CHOOSE c \in db_chunks : c.id = i

\* C14: a chunk whose stored vector is NULL never appears in a SEMANTIC
\* result, whatever the metric and top_k, also when fewer than top_k chunks
\* with a vector exist.
C14_NoNullVectorInSemantic ==
    (search.pc = "returned" /\ search.search_mode = "semantic") =>
        \A i \in 1..Len(search.results) :
            /\ \E c \in db_chunks : c.id = search.results[i].chunk_id
            /\ ChunkRow(search.results[i].chunk_id).embedding # Null

\* a semantic result shorter than top_k while a targeted chunk without a
\* vector was left out
C14_Witness ==
    /\ search.pc = "returned"
    /\ search.search_mode = "semantic"
    /\ Len(search.results) >= 1
    /\ Len(search.results) < search.top_k
    /\ \E c \in Targeted : c.embedding = Null /\ c.id \notin ReturnedIds

\* C15: in every search mode every returned result belongs to one of the
\* requested datasources, also in HYBRID when the chunk enters through one
\* side only.
C15_OnlyRequestedDatasources ==
    search.pc = "returned" =>
        \A i \in 1..Len(search.results) :
            /\ search.results[i].datasource_id \in InList(search.datasource_ids)
            /\ \E c \in Targeted : c.id = search.results[i].chunk_id

\* a hybrid result with a chunk that entered through the text side only,
\* while a chunk of a datasource that was not requested matches too
C15_Witness ==
    /\ search.pc = "returned"
    /\ search.search_mode = "hybrid"
    /\ Len(search.results) < search.top_k
    /\ \E c \in Targeted : c.id \in ReturnedIds /\ c.rank > 0 /\ c.embedding = Null
    /\ \E c \in db_chunks \ Targeted : c.rank > 0 /\ c.embedding # Null

\* the first requested datasource has no configured embedding model
FirstHasNoModel ==
    /\ search.datasource_ids # <<>>
    /\ db_model[search.datasource_ids[1]] \in {NoRow, ""}

\* the search call has gone past the model lookup of its mode
PastLookup == search.pc \in {"embed", "query", "returned", "raised"}

C16_FullTextWitness ==
    /\ search.pc = "returned"
    /\ search.search_mode = "full_text"
    /\ search.results # <<>>
    /\ \A ds \in InList(search.datasource_ids) : db_model[ds] = ""

\* native distance of the i-th returned chunk to the query embedding
ResultDistance(i) ==
    Distance(search.similarity_metric, ChunkRow(search.results[i].chunk_id).embedding,
             search.query_embedding)

\* C23: for each of the three metrics the semantic score is 1 - distance and
\* higher is better: of two returned chunks the one with the smaller native
\* distance never has the lower score, and the returned list is in ascending
\* distance order and in descending score order at once.
C23_ScoreIsOneMinusDistance ==
    (search.pc = "returned" /\ search.search_mode = "semantic") =>
        LET res == search.results
        IN /\ \A i \in 1..Len(res) : res[i].score = ScoreScale * (1 - ResultDistance(i))
           /\ \A i, j \in 1..Len(res) :
                 /\ ResultDistance(i) < ResultDistance(j) => res[i].score > res[j].score
                 /\ i < j => (ResultDistance(i) <= ResultDistance(j) /\ res[i].score >= res[j].score)

\* two chunks at different inner-product distances, returned nearest first
C23_Witness ==
    /\ search.pc = "returned"
    /\ search.search_mode = "semantic"
    /\ search.similarity_metric = "inner"
    /\ Len(search.results) = 2
    /\ ResultDistance(1) < ResultDistance(2)
    /\ search.results[1].score > search.results[2].score

(***************************************************************************)
(* Properties of ChunkerFactory.get_chunker                                *)
(***************************************************************************)
\* the spellings of one tag: the tags that differ in letter case only
SameTag(t, u) ==
    \/ t = u
    \/ {t, u} \in {{"word", "Word"}, {"word", "WORD"}, {"Word", "WORD"},
                   {"doc", "DOC"}, {"docx", "DocX"}, {"pdf", "PDF"}}

\* C24: get_chunker returns (it never raises); it returns a chunker exactly
\* when the lower-cased tag is one of get_supported_types() and None for
\* every other tag; two spellings of one tag give the same answer; the
\* chunker returned carries the chunk_size and chunk_overlap that were passed.
C24_ChunkerByLowerTag ==
    /\ factory.pc \in {"idle", "call", "returned"}
    /\ factory.pc = "returned" =>
          /\ (factory.result # NoChunker) <=> (Lower(factory.file_type) \in SupportedTypes)
          /\ factory.result # NoChunker =>
                /\ factory.result.class = "DocChunker"
                /\ factory.result.chunk_size = factory.chunk_size
                /\ factory.result.chunk_overlap = factory.chunk_overlap
          /\ \A u \in Tags :
                SameTag(u, factory.file_type) =>
                    GetChunkerInstance(u, factory.chunk_size, factory.chunk_overlap)
                        = factory.result

\* a tag in mixed case got a chunker with parameters other than the defaults
C24_Witness ==
    /\ factory.pc = "returned"
    /\ factory.file_type = "DocX"
    /\ factory.result # NoChunker
    /\ factory.result.chunk_size = 3
    /\ factory.result.chunk_overlap = 1

\* an unknown tag got None
C24_NoneWitness ==
    /\ factory.pc = "returned"
    /\ factory.file_type = "PDF"
    /\ factory.result = NoChunker

(***************************************************************************)
(* Properties of datasources                                               *)
(***************************************************************************)
\* C25: every persisted chunk vector of a datasource was produced with the
\* embedding model currently configured for that datasource.
C25_VectorsOfConfiguredModel ==
    \A r \in db_chunks : r.embedding.model = db_model[r.datasource_id]

====
